---- MODULE Spec2Model ----
(***************************************************************************)
(* The migration runner of maes-platform: MigrationManager                 *)
(* (api/src/utils/migrate.js) issuing its SQL through the pooled `query`   *)
(* helper (services/database.js).                                          *)
(*                                                                         *)
(* The database is PostgreSQL seen through a connection pool: every call   *)
(* of query() is pool.query(), which runs the statement on whichever       *)
(* pooled connection it is handed.  Transaction state (BEGIN / COMMIT /    *)
(* ROLLBACK) belongs to a connection, so it is kept per connection.        *)
(***************************************************************************)
EXTENDS Integers, Sequences, FiniteSets, TLC

\* Number of pooled connections a query may be handed (the pool allows 10).
NumConns == 2
\* Number of runPendingMigrations invocations in one behaviour; no process
\* is started once that many runs were.
MaxRuns == 2
\* Length of the script texts handed to the statement splitter.
MaxTextLen == 4

Conns == 1..NumConns

NoFile == "-"

(***************************************************************************)
(* A process is `node migrate.js [run|status]`: main() builds a            *)
(* MigrationManager, awaits runPendingMigrations or getStatus and calls    *)
(* process.exit, which closes the pool's connections.  Processes follow    *)
(* one another; the database outlives them.                                *)
(*                                                                         *)
(* What a script statement does is kept as a count of its executions:      *)
(* `effects` for the durable ones, `txw` for those of a transaction block  *)
(* that is still open.  The ledger is the set of committed filenames.      *)
(*                                                                         *)
(* File names and script texts, as sequences of UTF-16 code units.         *)
(***************************************************************************)
SEMI == 59
SPACE == 32
NEWLINE == 10

\* The entries the migrations directory may hold.
DirUniverse == {"10.sql", "2.sql", "notes.txt"}

\* The entry that is no migration script; the directory always holds it, so
\* that every listing has something for the filter to drop.
OtherEntries == {"notes.txt"}

\* The code units of a file name ('.'=46 '0'=48 '1'=49 '2'=50 ...).
CodeUnits(name) ==
    CASE name = "10.sql"    -> <<49, 48, 46, 115, 113, 108>>
      [] name = "2.sql"     -> <<50, 46, 115, 113, 108>>
      [] name = "notes.txt" -> <<110, 111, 116, 101, 115, 46, 116, 120, 116>>
      [] OTHER              -> <<>>

\* ".sql"
SqlSuffix == <<46, 115, 113, 108>>

\* file.endsWith('.sql')
EndsWithSql(name) ==
    LET u == CodeUnits(name) IN
    /\ Len(u) >= Len(SqlSuffix)
    /\ SubSeq(u, Len(u) - Len(SqlSuffix) + 1, Len(u)) = SqlSuffix

\* String comparison of Array.prototype.sort(): by code units, a proper
\* prefix first.
RECURSIVE LexLess(_, _)
LexLess(u, v) ==
    IF v = <<>> THEN FALSE
    ELSE IF u = <<>> THEN TRUE
    ELSE IF Head(u) # Head(v) THEN Head(u) < Head(v)
    ELSE LexLess(Tail(u), Tail(v))

NameLess(a, b) == LexLess(CodeUnits(a), CodeUnits(b))

RECURSIVE InsertSorted(_, _)
InsertSorted(x, s) ==
    IF s = <<>> THEN <<x>>
    ELSE IF NameLess(x, Head(s)) THEN <<x>> \o s
    ELSE <<Head(s)>> \o InsertSorted(x, Tail(s))

RECURSIVE SortNames(_)
SortNames(s) ==
    IF s = <<>> THEN <<>> ELSE InsertSorted(Head(s), SortNames(Tail(s)))

Range(s) == {s[n] : n \in 1..Len(s)}

\* The orders in which fs.readdir may list a directory.
Listings(d) ==
    {s \in [1..Cardinality(d) -> d] : \A a, b \in 1..Cardinality(d) : a # b => s[a] # s[b]}

\* Array returned by getMigrationFiles for a directory listing.
UnsortedFiles(listing) == SelectSeq(listing, EndsWithSql)

MigrationFilesOf(listing) == SortNames(SelectSeq(listing, EndsWithSql))

\* The text of each script: "a; b;" and " ;c;\n".
ScriptText(name) ==
    CASE name = "10.sql" -> <<97, SEMI, SPACE, 98, SEMI>>
      [] name = "2.sql"  -> <<SPACE, SEMI, 99, SEMI, NEWLINE>>
      [] OTHER           -> <<>>

\* text.split(';')
RECURSIVE SplitAcc(_, _, _)
SplitAcc(text, cur, acc) ==
    IF text = <<>> THEN Append(acc, cur)
    ELSE IF Head(text) = SEMI THEN SplitAcc(Tail(text), <<>>, Append(acc, cur))
    ELSE SplitAcc(Tail(text), Append(cur, Head(text)), acc)

Split(text) == SplitAcc(text, <<>>, <<>>)

IsSpace(ch) == ch \in {SPACE, NEWLINE, 9, 13}

RECURSIVE TrimStart(_)
TrimStart(s) ==
    IF s # <<>> /\ IsSpace(Head(s)) THEN TrimStart(Tail(s)) ELSE s

RECURSIVE TrimEnd(_)
TrimEnd(s) ==
    IF s # <<>> /\ IsSpace(s[Len(s)]) THEN TrimEnd(SubSeq(s, 1, Len(s) - 1)) ELSE s

\* The piece is kept as it stands between the semicolons.
Untrimmed(s) == s

\* stmt.trim()
Trim(s) == TrimEnd(TrimStart(s))

NonEmpty(s) == Len(s) > 0

\* The `statements` array runMigration builds from the text of a script.
StatementsOf(text) ==
    LET pieces == Split(text) IN
    SelectSeq([n \in 1..Len(pieces) |-> Trim(pieces[n])], NonEmpty)

\* The `statements` array of runMigration.
Statements(name) == StatementsOf(ScriptText(name))

\* The code units script texts are made of: 'a', ';', ' ' and '\n'.
Alphabet == {97, SEMI, SPACE, NEWLINE}

\* The script texts the splitter is run on.
Texts == UNION {[1..n -> Alphabet] : n \in 0..MaxTextLen}

SqlNames == {f \in DirUniverse : EndsWithSql(f)}

\* One executed statement of a script: <<file, index in Statements(file)>>.
StmtIds == UNION {{<<f, n>> : n \in 1..Len(Statements(f))} : f \in SqlNames}

(***************************************************************************)
(* State.                                                                  *)
(***************************************************************************)
VARIABLES
    dir,                \* entries of the migrations directory
    ledger,             \* committed rows of maes.migrations (filenames)
    effects,            \* committed executions of each script statement
    txn,                \* per connection: "idle", "open" or "failed"
    txl,                \* per connection: ledger rows inserted, not committed
    txw,                \* per connection: statement executions, not committed
    pc,                 \* position of the MigrationManager
    runs,               \* runPendingMigrations invocations so far
    appliedMigrations,  \* local of runPendingMigrations
    migrationFiles,     \* local of runPendingMigrations
    pendingMigrations,  \* local of runPendingMigrations
    i,                  \* index of the for-of loop over pendingMigrations
    k,                  \* index of the for-of loop over statements
    caught,             \* error held by the inner catch while ROLLBACK runs
    result,             \* how the latest run ended, and with which error
    usedConns,          \* connections that ran the current script's queries
    ran,                \* runMigration calls of this run, in order
    issued,             \* BEGIN / statement / INSERT queries issued this run
    committed,          \* scripts whose COMMIT query resolved this run
    failedAt,           \* script whose runMigration rejected in this run
    ledger0,            \* ledger when this run started
    effects0,           \* effects when this run started
    prev,               \* how the run before this one ended, on which files, failing where
    leftOpen,           \* a runMigration of this run ended with a block still open
    exitCode,           \* exit status of the latest migrate.js process
    command,            \* main: process.argv[2] || 'run' of the latest process
    status,             \* getStatus: the object it builds, and the reads that failed
    splitter,           \* a script text, and the statements of it sent so far
    rival               \* scripts another invocation applied during this run

db == <<ledger, effects, txn, txl, txw>>
locals == <<appliedMigrations, migrationFiles, pendingMigrations, i, k, caught>>
hist == <<usedConns, ran, issued, committed, failedAt, ledger0, effects0, prev, leftOpen>>
cli == <<command, status>>
aux == <<splitter, rival>>
vars == <<dir, db, pc, runs, locals, result, hist, exitCode, cli, aux>>

NoEffects == [id \in StmtIds |-> 0]
NoResult == [status |-> "none", error |-> "none", files |-> {}]
NoText == [text |-> <<>>, sent |-> <<>>, k |-> 0]
NoStatus == [total |-> 0, applied |-> 0, pending |-> 0,
             appliedMigrations |-> {}, pendingMigrations |-> <<>>,
             returned |-> FALSE, errors |-> {}]

\* A query recorded in `issued`: BEGIN, statement n or the ledger INSERT.
Issue(f, kind, n) == [file |-> f, kind |-> kind, n |-> n]

\* No process has run yet: the ledger is empty, no script has had effect.
InitProcess ==
    /\ ledger = {}
    /\ effects = NoEffects
    /\ txn = [c \in Conns |-> "idle"]
    /\ txl = [c \in Conns |-> {}]
    /\ txw = [c \in Conns |-> NoEffects]
    /\ pc = "idle"
    /\ runs = 0
    /\ appliedMigrations = {}
    /\ migrationFiles = <<>>
    /\ pendingMigrations = <<>>
    /\ i = 0
    /\ k = 0
    /\ caught = "none"
    /\ result = NoResult
    /\ usedConns = {}
    /\ ran = <<>>
    /\ issued = {}
    /\ committed = <<>>
    /\ failedAt = NoFile
    /\ ledger0 = {}
    /\ effects0 = NoEffects
    /\ prev = [status |-> "none", files |-> {}, failedAt |-> NoFile]
    /\ leftOpen = FALSE
    /\ exitCode = 0
    /\ command = "none"
    /\ status = NoStatus
    /\ rival = {}

Init ==
    /\ dir \in {d \cup OtherEntries : d \in SUBSET (DirUniverse \ OtherEntries)}
    /\ splitter = NoText
    /\ InitProcess

(***************************************************************************)
(* The SQL executor: one statement on one connection.  `o` is what the     *)
(* environment does to the call: "ok", "sqlerr" (the server rejects the    *)
(* statement) or "dropped" (the connection breaks, the call fails and the  *)
(* server rolls back what the connection had open).                        *)
(* Each operator gives the reply and the database after the call.          *)
(***************************************************************************)
Outcomes == {"ok", "sqlerr", "dropped"}

\* The connections pool.query may hand a call.
PoolConns == Conns

Reply(okay, t, l, w, led, eff) ==
    [ok |-> okay, txn |-> t, txl |-> l, txw |-> w, ledger |-> led, effects |-> eff]

Unchanged(okay) == Reply(okay, txn, txl, txw, ledger, effects)

\* The session of connection c ends its transaction without committing.
Discard(okay, c) ==
    Reply(okay, [txn EXCEPT ![c] = "idle"], [txl EXCEPT ![c] = {}],
          [txw EXCEPT ![c] = NoEffects], ledger, effects)

\* An error reply: a server error inside a transaction block aborts the
\* block, which then rejects every statement until it is rolled back.
ErrorReply(c, o) ==
    IF o = "dropped" THEN Discard(FALSE, c)
    ELSE IF txn[c] = "open"
    THEN Reply(FALSE, [txn EXCEPT ![c] = "failed"], txl,
               [txw EXCEPT ![c] = NoEffects], ledger, effects)
    ELSE Unchanged(FALSE)

\* Whether the server rejects a statement whatever it is.
Rejects(c, o) == o # "ok" \/ txn[c] = "failed"

QueryBegin(c, o) ==
    IF Rejects(c, o) THEN ErrorReply(c, o)
    ELSE Reply(TRUE, [txn EXCEPT ![c] = "open"], txl, txw, ledger, effects)

QueryStatement(c, o, id) ==
    IF Rejects(c, o) THEN ErrorReply(c, o)
    ELSE IF txn[c] = "open"
    THEN Reply(TRUE, txn, txl, [txw EXCEPT ![c][id] = @ + 1], ledger, effects)
    ELSE Reply(TRUE, txn, txl, txw, ledger, [effects EXCEPT ![id] = @ + 1])

\* INSERT INTO maes.migrations (filename): filename is UNIQUE.
QueryInsert(c, o, f) ==
    IF Rejects(c, o) THEN ErrorReply(c, o)
    ELSE IF f \in ledger \cup txl[c] THEN ErrorReply(c, "sqlerr")
    ELSE IF txn[c] = "open"
    THEN Reply(TRUE, txn, [txl EXCEPT ![c] = @ \cup {f}], txw, ledger, effects)
    ELSE Reply(TRUE, txn, txl, txw, ledger \cup {f}, effects)

\* An INSERT waits while another session holds the same key uncommitted.
InsertWaits(c, f) == \E d \in Conns \ {c} : f \in txl[d]

\* COMMIT makes an open block durable, ends a failed block by rolling it
\* back, and is a no-op (with a warning) outside a block.
QueryCommit(c, o) ==
    IF o # "ok" THEN ErrorReply(c, o)
    ELSE IF txn[c] = "open"
    THEN Reply(TRUE, [txn EXCEPT ![c] = "idle"], [txl EXCEPT ![c] = {}],
               [txw EXCEPT ![c] = NoEffects], ledger \cup txl[c],
               [id \in StmtIds |-> effects[id] + txw[c][id]])
    ELSE Discard(TRUE, c)

\* ROLLBACK ends the block of its own session, if it has one.
QueryRollback(c, o) ==
    IF o # "ok" THEN ErrorReply(c, o) ELSE Discard(TRUE, c)

\* CREATE TABLE IF NOT EXISTS maes.migrations: the table is there already.
QueryCreateTable(c, o) ==
    IF Rejects(c, o) THEN ErrorReply(c, o) ELSE Unchanged(TRUE)

\* SELECT filename FROM maes.migrations: the rows the session sees.
QuerySelect(c, o) ==
    IF Rejects(c, o) THEN ErrorReply(c, o) ELSE Unchanged(TRUE)

VisibleLedger(c) == ledger \cup txl[c]

\* The database once every connection of the pool is closed: the server
\* rolls back what they left open.
CloseAll(r) ==
    Reply(r.ok, [c \in Conns |-> "idle"], [c \in Conns |-> {}],
          [c \in Conns |-> NoEffects], r.ledger, r.effects)

SetDb(r) ==
    /\ txn' = r.txn
    /\ txl' = r.txl
    /\ txw' = r.txw
    /\ ledger' = r.ledger
    /\ effects' = r.effects

(***************************************************************************)
(* MigrationManager.  Each action is one await of the code together with   *)
(* the synchronous code that follows it up to the next await.              *)
(***************************************************************************)
\* The script runMigration is working on.
Current == pendingMigrations[i]

\* Every discovered script is taken as pending, applied or not.
AllPending(files, applied) == files

\* migrationFiles.filter(file => !appliedMigrations.includes(file))
PendingOf(files, applied) == SelectSeq(files, LAMBDA f : f \notin applied)

\* main always exits 0, whatever its try block did.
ExitsZero(threw) == 0

\* main: process.exit(0) after the switch, process.exit(1) in the catch.
ExitCodeOf(threw) == IF threw THEN 1 ELSE 0

\* process.exit(code) with the database left as in reply r.
Exit(code, r) ==
    /\ pc' = "idle"
    /\ exitCode' = code
    /\ SetDb(CloseAll(r))

\* runPendingMigrations returns; main leaves the switch and exits.
Resolve(r) ==
    /\ result' = [result EXCEPT !.status = "resolved"]
    /\ Exit(ExitCodeOf(FALSE), r)

\* runPendingMigrations rejects with error e (catch, log, rethrow); main
\* catches it and exits.
Reject(e, r) ==
    /\ result' = [result EXCEPT !.status = "rejected", !.error = e]
    /\ Exit(ExitCodeOf(TRUE), r)

\* The process goes on to its next await.
Goto(label, r) ==
    /\ pc' = label
    /\ SetDb(r)
    /\ UNCHANGED <<result, exitCode>>

\* runMigration(f) is called, f being entry n of pendingMigrations.
CallRunMigration(n, f, r) ==
    /\ i' = n
    /\ k' = 0
    /\ ran' = Append(ran, f)
    /\ Goto("readFile", r)

\* Reply r leaves a transaction block open on some connection.
OpenAfter(r) == \E c \in Conns : r.txn[c] # "idle"

\* runMigration's error caught and not rethrown: the run ends as a success.
RunMigrationSwallows(e, r) ==
    /\ failedAt' = Current
    /\ leftOpen' = (leftOpen \/ OpenAfter(r))
    /\ Resolve(r)

\* runMigration rejects with e: the for-of loop is left, the run rejects.
RunMigrationThrows(e, r) ==
    /\ failedAt' = Current
    /\ leftOpen' = (leftOpen \/ OpenAfter(r))
    /\ Reject(e, r)

\* runMigration resolved: next iteration of the loop, or the run is over.
AfterRunMigration(r) ==
    /\ leftOpen' = (leftOpen \/ OpenAfter(r))
    /\ IF i < Len(pendingMigrations)
       THEN CallRunMigration(i + 1, pendingMigrations[i + 1], r)
       ELSE Resolve(r) /\ UNCHANGED <<i, k, ran>>

\* process.argv[2] of a migrate.js process; "" stands for no argument.
Argv == {"", "run", "status", "help"}

\* const command = process.argv[2] || 'run'
CommandOf(arg) == IF arg = "" THEN "run" ELSE arg

\* main() with no argument or with 'run': runPendingMigrations is entered.
RunPendingMigrations ==
    /\ pc = "idle"
    /\ \E arg \in Argv : CommandOf(arg) = "run"
    /\ runs < MaxRuns
    /\ runs' = runs + 1
    /\ pc' = "createTable"
    /\ prev' = [status |-> result.status, files |-> result.files, failedAt |-> failedAt]
    /\ result' = [status |-> "running", error |-> "none",
                  files |-> {f \in dir : EndsWithSql(f)}]
    /\ appliedMigrations' = {}
    /\ migrationFiles' = <<>>
    /\ pendingMigrations' = <<>>
    /\ i' = 0
    /\ k' = 0
    /\ caught' = "none"
    /\ usedConns' = {}
    /\ ran' = <<>>
    /\ issued' = {}
    /\ committed' = <<>>
    /\ failedAt' = NoFile
    /\ leftOpen' = FALSE
    /\ ledger0' = ledger
    /\ effects0' = effects
    /\ command' = "run"
    /\ status' = NoStatus
    /\ rival' = {}
    /\ exitCode' = 0
    /\ UNCHANGED <<dir, db, splitter>>

CreateMigrationsTable ==
    /\ pc = "createTable"
    /\ \E c \in PoolConns, o \in Outcomes :
         LET r == QueryCreateTable(c, o) IN
         IF r.ok THEN Goto("getApplied", r) ELSE Reject("createTable", r)
    /\ UNCHANGED <<dir, runs, locals, hist>>
    /\ UNCHANGED <<cli, aux>>

GetAppliedMigrations ==
    /\ pc = "getApplied"
    /\ \E c \in PoolConns, o \in Outcomes :
         LET r == QuerySelect(c, o) IN
         /\ appliedMigrations' = IF r.ok THEN VisibleLedger(c) ELSE {}
         /\ Goto("getFiles", r)
    /\ UNCHANGED <<dir, runs, migrationFiles, pendingMigrations, i, k, caught, hist>>
    /\ UNCHANGED <<cli, aux>>

GetMigrationFiles ==
    /\ pc = "getFiles"
    /\ \E readOk \in BOOLEAN, listing \in Listings(dir) :
         /\ migrationFiles' = IF readOk THEN MigrationFilesOf(listing) ELSE <<>>
         /\ pendingMigrations' = PendingOf(migrationFiles', appliedMigrations)
    /\ IF pendingMigrations' = <<>>
       THEN Resolve(Unchanged(TRUE)) /\ UNCHANGED <<i, k, ran>>
       ELSE CallRunMigration(1, pendingMigrations'[1], Unchanged(TRUE))
    /\ UNCHANGED <<dir, runs, appliedMigrations, caught, usedConns, issued, committed,
                   failedAt, leftOpen, ledger0, effects0, prev>>
    /\ UNCHANGED <<cli, aux>>

ReadFile ==
    /\ pc = "readFile"
    /\ \E readOk \in BOOLEAN :
         IF readOk
         THEN Goto("begin", Unchanged(TRUE)) /\ UNCHANGED <<failedAt, leftOpen>>
         ELSE RunMigrationThrows("readFile", Unchanged(FALSE))
    /\ UNCHANGED <<dir, runs, locals, usedConns, ran, issued, committed,
                   ledger0, effects0, prev>>
    /\ UNCHANGED <<cli, aux>>

Begin ==
    /\ pc = "begin"
    /\ \E c \in PoolConns, o \in Outcomes :
         LET r == QueryBegin(c, o) IN
         /\ usedConns' = {c}
         /\ IF r.ok
            THEN /\ k' = 1
                 /\ Goto(IF Len(Statements(Current)) >= 1 THEN "statement" ELSE "insert", r)
                 /\ UNCHANGED <<failedAt, leftOpen>>
            ELSE RunMigrationThrows("begin", r) /\ UNCHANGED k
    /\ issued' = issued \cup {Issue(Current, "BEGIN", 0)}
    /\ UNCHANGED <<dir, runs, appliedMigrations, migrationFiles, pendingMigrations,
                   i, caught, ran, committed, ledger0, effects0, prev>>
    /\ UNCHANGED <<cli, aux>>

\* After statement k: the next statement, or the ledger INSERT.
NextStatement(r) ==
    /\ k' = k + 1
    /\ Goto(IF k < Len(Statements(Current)) THEN "statement" ELSE "insert", r)
    /\ UNCHANGED caught

\* The inner catch is entered with error e: ROLLBACK is issued next.
Catch(e, r) ==
    /\ caught' = e
    /\ Goto("rollback", r)

Statement ==
    /\ pc = "statement"
    /\ IF NonEmpty(Trim(Statements(Current)[k]))
       THEN \E c \in PoolConns, o \in Outcomes :
              LET r == QueryStatement(c, o, <<Current, k>>) IN
              /\ usedConns' = usedConns \cup {c}
              /\ issued' = issued \cup {Issue(Current, "statement", k)}
              /\ IF r.ok THEN NextStatement(r) ELSE Catch("statement", r) /\ UNCHANGED k
       ELSE NextStatement(Unchanged(TRUE)) /\ UNCHANGED <<usedConns, issued>>
    /\ UNCHANGED <<dir, runs, appliedMigrations, migrationFiles, pendingMigrations,
                   i, ran, committed, failedAt, leftOpen, ledger0, effects0, prev>>
    /\ UNCHANGED <<cli, aux>>

InsertLedger ==
    /\ pc = "insert"
    /\ \E c \in PoolConns, o \in Outcomes :
         LET r == QueryInsert(c, o, Current) IN
         /\ ~InsertWaits(c, Current)
         /\ usedConns' = usedConns \cup {c}
         /\ IF r.ok THEN Goto("commit", r) /\ UNCHANGED caught ELSE Catch("insert", r)
    /\ issued' = issued \cup {Issue(Current, "INSERT", 0)}
    /\ UNCHANGED <<dir, runs, appliedMigrations, migrationFiles, pendingMigrations,
                   i, k, ran, committed, failedAt, leftOpen, ledger0, effects0, prev>>
    /\ UNCHANGED <<cli, aux>>

Commit ==
    /\ pc = "commit"
    /\ \E c \in PoolConns, o \in Outcomes :
         LET r == QueryCommit(c, o) IN
         /\ usedConns' = usedConns \cup {c}
         /\ IF r.ok
            THEN /\ committed' = Append(committed, Current)
                 /\ AfterRunMigration(r)
                 /\ UNCHANGED caught
            ELSE /\ Catch("commit", r)
                 /\ UNCHANGED <<committed, i, k, ran, leftOpen>>
    /\ UNCHANGED <<dir, runs, appliedMigrations, migrationFiles, pendingMigrations,
                   issued, failedAt, ledger0, effects0, prev>>
    /\ UNCHANGED <<cli, aux>>

Rollback ==
    /\ pc = "rollback"
    /\ \E c \in PoolConns, o \in Outcomes :
         LET r == QueryRollback(c, o) IN
         /\ usedConns' = usedConns \cup {c}
         /\ RunMigrationThrows(IF r.ok THEN caught ELSE "rollback", r)
    /\ UNCHANGED <<dir, runs, locals, ran, issued, committed, ledger0, effects0, prev>>
    /\ UNCHANGED <<cli, aux>>

\* main() with any other argument: the usage text, process.exit(1).
Usage ==
    /\ pc = "idle"
    /\ runs < MaxRuns
    /\ \E arg \in Argv :
         /\ CommandOf(arg) \notin {"run", "status"}
         /\ command' = CommandOf(arg)
    /\ status' = NoStatus
    /\ Exit(1, Unchanged(TRUE))
    /\ UNCHANGED <<dir, runs, locals, result, hist, aux>>

Next ==
    \/ RunPendingMigrations
    \/ CreateMigrationsTable
    \/ GetAppliedMigrations
    \/ GetMigrationFiles
    \/ ReadFile
    \/ Begin
    \/ Statement
    \/ InsertLedger
    \/ Commit
    \/ Rollback
    \/ Usage

Spec == Init /\ [][Next]_vars

(***************************************************************************)
(* The status command.                                                     *)
(***************************************************************************)
\* main() with 'status': getStatus is entered.
GetStatus ==
    /\ pc = "idle"
    /\ runs < MaxRuns
    /\ \E arg \in Argv : CommandOf(arg) = "status"
    /\ command' = "status"
    /\ status' = NoStatus
    /\ pc' = "statusApplied"
    /\ exitCode' = 0
    /\ UNCHANGED <<dir, db, runs, locals, result, hist, aux>>

\* getStatus: await this.getAppliedMigrations()
StatusAppliedMigrations ==
    /\ pc = "statusApplied"
    /\ \E c \in PoolConns, o \in Outcomes :
         LET r == QuerySelect(c, o) IN
         /\ status' = [status EXCEPT
                           !.appliedMigrations = IF r.ok THEN VisibleLedger(c) ELSE {},
                           !.errors = IF r.ok THEN {} ELSE {"ledger"}]
         /\ Goto("statusFiles", r)
    /\ UNCHANGED <<dir, runs, locals, hist, command, aux>>

\* The object getStatus returns for these files and applied filenames, with
\* the reads that failed on the way.
StatusOf(files, applied, errors) ==
    [total |-> Len(files), applied |-> Cardinality(applied),
     pending |-> Len(PendingOf(files, applied)),
     appliedMigrations |-> applied,
     pendingMigrations |-> PendingOf(files, applied),
     returned |-> TRUE, errors |-> errors]

\* getStatus: await this.getMigrationFiles(), the returned object; main
\* prints it and exits.
StatusMigrationFiles ==
    /\ pc = "statusFiles"
    /\ \E readOk \in BOOLEAN, listing \in Listings(dir) :
         status' = StatusOf(IF readOk THEN MigrationFilesOf(listing) ELSE <<>>,
                            status.appliedMigrations,
                            status.errors \cup (IF readOk THEN {} ELSE {"directory"}))
    /\ Exit(ExitCodeOf(FALSE), Unchanged(TRUE))
    /\ UNCHANGED <<dir, runs, locals, result, hist, command, aux>>

NextCli ==
    \/ Next
    \/ GetStatus
    \/ StatusAppliedMigrations
    \/ StatusMigrationFiles

SpecCli == Init /\ [][NextCli]_vars

(***************************************************************************)
(* The statement splitter of runMigration on its own, on any script text:  *)
(* the statements array is built, then each statement that is not empty    *)
(* after trimming is sent to the executor.                                 *)
(***************************************************************************)
InitSplit ==
    /\ dir = OtherEntries
    /\ splitter \in {[text |-> t, sent |-> <<>>, k |-> 0] : t \in Texts}
    /\ InitProcess

\* One iteration of `for (const statement of statements)`.
SendStatement ==
    /\ splitter.k < Len(StatementsOf(splitter.text))
    /\ LET statement == StatementsOf(splitter.text)[splitter.k + 1] IN
       splitter' = [splitter EXCEPT
                       !.k = splitter.k + 1,
                       !.sent = IF NonEmpty(Trim(statement))
                                THEN Append(splitter.sent, statement)
                                ELSE splitter.sent]
    /\ UNCHANGED <<dir, db, pc, runs, locals, result, hist, exitCode, cli, rival>>

NextSplit == SendStatement

SpecSplit == InitSplit /\ [][NextSplit]_vars

(***************************************************************************)
(* A second invocation of runPendingMigrations, in another process against *)
(* the same database, that read the ledger before this run's rows were     *)
(* committed.  Its runMigration(f) is taken in the interleaving where its   *)
(* BEGIN ... COMMIT all land between two awaits of this run, on one of its  *)
(* own connections: the statements of f and the ledger row become durable   *)
(* together.  It is the winner of the race on f: it commits before this run *)
(* issues its own ledger INSERT for f.                                      *)
(***************************************************************************)
RivalRunMigration(f) ==
    /\ pc \in {"readFile", "begin", "statement", "insert", "commit", "rollback"}
    /\ f \in Range(pendingMigrations)
    /\ f \notin ledger
    /\ Issue(f, "INSERT", 0) \notin issued
    /\ ledger' = ledger \cup {f}
    /\ effects' = [id \in StmtIds |-> IF id[1] = f THEN effects[id] + 1 ELSE effects[id]]
    /\ rival' = rival \cup {f}
    /\ UNCHANGED <<dir, txn, txl, txw, pc, runs, locals, result, hist, exitCode, cli,
                   splitter>>

Rival == \E f \in SqlNames : RivalRunMigration(f)

NextRival == Next \/ Rival

SpecRival == Init /\ [][NextRival]_vars

(***************************************************************************)
(* Properties.                                                             *)
(***************************************************************************)
\* Every statement of script f is durably applied.
FullyApplied(f) == \A n \in 1..Len(Statements(f)) : effects[<<f, n>>] >= 1

\* Some statement of script f is durably applied.
PartlyApplied(f) == \E n \in 1..Len(Statements(f)) : effects[<<f, n>>] >= 1

\* The run is over.
RunOver == pc = "idle" /\ result.status \in {"resolved", "rejected"}

\* The run is over and failed inside runMigration(failedAt).
RunFailedAt == RunOver /\ failedAt # NoFile

\* C1: in every reachable state a ledger row for a filename exists iff every
\* statement of that script is durably applied: no row is visible while a
\* statement is missing, no statement is durable while the row is absent.
C1_LedgerIffApplied ==
    \A f \in SqlNames :
        /\ f \in ledger => FullyApplied(f)
        /\ PartlyApplied(f) => f \in ledger

\* C2: once runMigration has rejected because statement k >= 2 or the ledger
\* INSERT failed, nothing statements 1..k-1 did in it persists and the
\* ledger has no row for the script.
C2_FailedScriptLeavesNothing ==
    (RunFailedAt /\ (caught = "insert" \/ (caught = "statement" /\ k >= 2))) =>
        /\ failedAt \notin ledger
        /\ \A n \in 1..(k - 1) : effects[<<failedAt, n>>] = effects0[<<failedAt, n>>]

\* C3: BEGIN, the statements, the ledger INSERT and the closing COMMIT or
\* ROLLBACK of one script application all run on one connection.
C3_OneConnectionPerScript == Cardinality(usedConns) <= 1

\* C4: when the application of a pending script fails the run stops there:
\* it rejects, runMigration was called for the pending scripts up to the
\* failing one only, and no query of a later pending script was issued.
C4_AbortsOnFirstFailure ==
    (command = "run" /\ failedAt # NoFile) =>
        /\ pc = "idle"
        /\ result.status = "rejected"
        /\ \E n \in 1..Len(pendingMigrations) :
             /\ pendingMigrations[n] = failedAt
             /\ ran = SubSeq(pendingMigrations, 1, n)
             /\ \A q \in issued : \E m \in 1..n : q.file = pendingMigrations[m]

\* A run failed on its first pending script after issuing queries for it,
\* with a later script still pending.
C4_Witness ==
    /\ RunFailedAt
    /\ Len(pendingMigrations) = 2
    /\ failedAt = pendingMigrations[1]
    /\ caught = "statement"
    /\ Issue(failedAt, "BEGIN", 0) \in issued

\* C5: after a run failed on script f the ledger holds what it held before
\* the run plus the pending scripts strictly before f, all fully applied,
\* and neither f nor a later script.
C5_LedgerAfterFailure ==
    RunFailedAt =>
        LET before == {p \in Range(pendingMigrations) : NameLess(p, failedAt)} IN
        /\ ledger = ledger0 \cup before
        /\ \A p \in before : FullyApplied(p)

\* C6: when runPendingMigrations returns, the ledger's filenames are exactly
\* the filenames getMigrationFiles returned in that run.
C6_LedgerEqualsDiscovered ==
    (RunOver /\ result.status = "resolved") => ledger = Range(migrationFiles)

\* C7: with the ledger M a subset of the discovered scripts N, a successful
\* run calls runMigration on exactly the scripts of N \ M, once each, and
\* the ledger then contains all of N.
C7_Completeness ==
    (/\ RunOver
     /\ result.status = "resolved"
     /\ ledger0 \subseteq Range(migrationFiles)) =>
        /\ Range(ran) = Range(migrationFiles) \ ledger0
        /\ Len(ran) = Cardinality(Range(ran))
        /\ Range(migrationFiles) \subseteq ledger

\* Strictly ascending in the code-unit order of the names.
Ascending(s) == \A a, b \in 1..Len(s) : a < b => NameLess(s[a], s[b])

\* C8: as the SQL executor sees them, the scripts are begun and committed
\* in the ascending lexicographic order of the pending filenames, and a
\* script is begun only when the COMMIT query of every pending script before
\* it has resolved.
C8_LexicographicOrder ==
    /\ Ascending(pendingMigrations)
    /\ Len(ran) <= Len(pendingMigrations)
    /\ ran = SubSeq(pendingMigrations, 1, Len(ran))
    /\ Len(committed) <= Len(ran)
    /\ committed = SubSeq(ran, 1, Len(committed))
    /\ pc \in {"readFile", "begin", "statement", "insert", "commit", "rollback"}
         => Len(committed) = Len(ran) - 1
    /\ (RunOver /\ result.status = "resolved") => committed = pendingMigrations

\* A run applied both scripts, "10.sql" before "2.sql".
C8_Witness ==
    /\ RunOver
    /\ result.status = "resolved"
    /\ committed = <<"10.sql", "2.sql">>

\* C9: a run that follows a successful run on the same script files issues
\* no script statement and no ledger INSERT and leaves the ledger as it was.
C9_Idempotence ==
    (prev.status = "resolved" /\ prev.files = result.files) =>
        /\ \A q \in issued : q.kind = "BEGIN"
        /\ ledger = ledger0

\* C10: no statement of a script is durably applied more than once, and the
\* ledger never loses a row it had.
C10_ExactlyOnce ==
    /\ \A id \in StmtIds : effects[id] <= 1
    /\ ledger0 \subseteq ledger


\* C11: whenever runMigration returns or rejects, no connection is left with
\* a transaction block open: the block its BEGIN opened has been closed by
\* the COMMIT or by the ROLLBACK, on every exit path.
C11_TransactionReleased == ~leftOpen


\* C12: when this run and another invocation both saw script f pending and
\* this run's ledger INSERT for f failed after the other had committed f, this
\* run rejects, the ledger holds the row of f, and every statement of f is
\* applied once more than before the run: the loser's statements do not remain.
C12_LoserLeavesNothing ==
    \A f \in rival :
        (RunOver /\ failedAt = f /\ caught = "insert") =>
            /\ result.status = "rejected"
            /\ f \in ledger
            /\ \A n \in 1..Len(Statements(f)) :
                   effects[<<f, n>>] = effects0[<<f, n>>] + 1


\* The run has read the ledger and the directory.
PastReads ==
    /\ command = "run"
    /\ pc \notin {"createTable", "getApplied", "getFiles"}
    /\ ~(result.status = "rejected" /\ result.error = "createTable")

\* C13: when no discovered script is missing from the ledger as the run read
\* it, the run ends at once and successfully, with exit status 0: it issued no
\* BEGIN, statement or INSERT, called runMigration for nothing, and the ledger
\* and the effects of the scripts are what they were before the run.
C13_NothingPending ==
    (PastReads /\ Range(migrationFiles) \subseteq appliedMigrations) =>
        /\ pc = "idle"
        /\ result.status = "resolved"
        /\ exitCode = 0
        /\ issued = {}
        /\ ran = <<>>
        /\ ledger = ledger0
        /\ effects = effects0

C13_Witness ==
    /\ PastReads
    /\ migrationFiles # <<>>
    /\ Range(migrationFiles) \subseteq appliedMigrations
    /\ result.status = "resolved"
    /\ issued = {}


\* The status command is over.
StatusOver == command = "status" /\ pc = "idle"

\* C14: the status command is all-or-nothing on a read failure: when the
\* ledger read or the directory read failed, getStatus returned no object and
\* the process exited non-zero; it exits zero only when both reads succeeded.
C14_StatusAllOrNothing ==
    StatusOver =>
        /\ status.errors # {} => (~status.returned /\ exitCode # 0)
        /\ exitCode = 0 => status.errors = {}


\* A `run` process has exited.
RunExited == command = "run" /\ pc = "idle"

\* How a `run` process exits: with 0 only when runMigration resolved for
\* every pending script and failed for none, with 0 whenever it read ledger
\* and directory and runMigration resolved for every pending script, and
\* with a non-zero status when a runMigration call failed.
RunExitStatus ==
    RunExited =>
        /\ exitCode = 0 => (committed = pendingMigrations /\ failedAt = NoFile)
        /\ (PastReads /\ committed = pendingMigrations) => exitCode = 0
        /\ failedAt # NoFile => exitCode # 0

\* A step of a process started with an unrecognized operation.
UsageStep == pc = "idle" /\ pc' = "idle" /\ command' \notin {"run", "status"}

Discovered == {f \in dir : EndsWithSql(f)}

\* The names of S in ascending lexicographic order.
InOrder(S) ==
    CHOOSE s \in [1..Cardinality(S) -> S] : Range(s) = S /\ Ascending(s)

\* C16: getStatus reports total = number of discovered scripts, applied =
\* number of ledger filenames, pending = number of discovered scripts not in
\* the ledger, and lists exactly those in lexicographic order; so after a
\* fully successful run applied = total and pending = 0, and after a run that
\* failed on f the pending list is f followed by every discovered script
\* after f.
C16_StatusCounts ==
    (StatusOver /\ status.returned) =>
        /\ status.total = Cardinality(Discovered)
        /\ status.applied = Cardinality(ledger)
        /\ status.pending = Cardinality(Discovered \ ledger)
        /\ status.pendingMigrations = InOrder(Discovered \ ledger)
        /\ result.status = "resolved" =>
               (status.applied = status.total /\ status.pending = 0)
        /\ (result.status = "rejected" /\ failedAt # NoFile) =>
               status.pendingMigrations =
                   InOrder({g \in Discovered : g = failedAt \/ NameLess(failedAt, g)})


\* C17: when a statement or the ledger INSERT of a script failed, the error
\* runPendingMigrations rejects with is that failure, on every path, also
\* when the ROLLBACK that follows fails itself.
C17_UnderlyingError ==
    (RunFailedAt /\ caught \in {"statement", "insert"}) =>
        /\ result.status = "rejected"
        /\ result.error = caught


\* C18: a run that follows a run that failed on script f first applies f, the
\* smallest discovered script that is not in the ledger; it issues nothing
\* for a script that is in the ledger, it calls runMigration in ascending
\* order, each script at most once, and for a script only when every script
\* it called before has committed.
C18_ResumeAfterFailure ==
    (command = "run" /\ prev.status = "rejected" /\ prev.failedAt # NoFile) =>
        /\ ran # <<>> =>
               /\ ran[1] = prev.failedAt
               /\ ran[1] \in Discovered \ ledger0
               /\ \A g \in Discovered \ ledger0 : g = ran[1] \/ NameLess(ran[1], g)
        /\ \A q \in issued : q.file \notin ledger0
        /\ Ascending(ran)
        /\ \A n \in 1..Len(ran) : n > 1 => ran[n - 1] \in Range(committed)


\* C20: no run issues a statement of a script whose filename was in the
\* ledger when the run started, whether or not its ledger read or its
\* directory read failed: a failed read makes no applied script pending.
C20_AppliedNeverReissued ==
    /\ \A q \in issued : q.kind = "statement" => q.file \notin ledger0
    /\ Range(pendingMigrations) \cap ledger0 = {}


\* The positions that bound the pieces of text t: before its first code
\* unit, at each ';', after its last code unit.
Cuts(t) == {0, Len(t) + 1} \cup {p \in 1..Len(t) : t[p] = SEMI}

\* The positions of the piece after cut a that hold no white space.
Inked(t, a) ==
    {p \in (a + 1)..Len(t) :
        /\ ~IsSpace(t[p])
        /\ \A c \in Cuts(t) : ~(a < c /\ c <= p)}

\* The cuts of t followed by a piece that is not blank.
Kept(t) == {a \in Cuts(t) : Inked(t, a) # {}}

\* The piece after cut a, from its first to its last inked position.
Piece(t, a) ==
    LET from == CHOOSE p \in Inked(t, a) : \A q \in Inked(t, a) : p <= q
        to   == CHOOSE p \in Inked(t, a) : \A q \in Inked(t, a) : q <= p
    IN  SubSeq(t, from, to)

\* The non-blank pieces of t between semicolons, trimmed, in source order.
Expected(t) ==
    [n \in 1..Cardinality(Kept(t)) |->
        Piece(t, CHOOSE a \in Kept(t) : Cardinality({b \in Kept(t) : b < a}) = n - 1)]

\* C19: the statements of a script sent to the executor are the pieces of
\* its text between semicolons, each trimmed, the empty ones left out, in
\* source order: what has been sent so far is the start of that sequence, all
\* of it once the loop is over, and no empty statement is ever sent.
C19_StatementSplitting ==
    LET t == splitter.text
        sent == splitter.sent
    IN  /\ Len(sent) <= Len(Expected(t))
        /\ sent = SubSeq(Expected(t), 1, Len(sent))
        /\ splitter.k = Len(StatementsOf(t)) => sent = Expected(t)
        /\ \A n \in 1..Len(sent) : sent[n] # <<>>

C19_Witness ==
    /\ splitter.text = <<97, SEMI, 97, SEMI>>
    /\ splitter.sent = <<(<<97>>), (<<97>>)>>

====
